---- MODULE Spec2Model ----
(***************************************************************************)
(* Model of the probe suite (utils/security_helpers.py) and of the report  *)
(* aggregation run (scripts/run_security_tests.py).                        *)
(*                                                                         *)
(* JSON objects / Python dicts are TLA+ records; "k in d" is               *)
(* k \in DOMAIN d.  Python lists are sequences.  A dict whose iteration    *)
(* order matters (the categories of a test-results file) is the sequence   *)
(* of its values in file order.                                            *)
(***************************************************************************)
EXTENDS Integers, Sequences, FiniteSets, TLC

\* ------------------------------------------------------------------------
\* Bounds of the model
\* ------------------------------------------------------------------------
\* records (findings and detector records) held by the reports directory
MaxRecords == 2
\* category entries of the test-results files of one run
MaxCats == 2
\* category keys the configurations of the calls on one suite declare
MaxKeys == 1
\* entry points the configurations of the calls on one suite list
MaxFuncs == 1
\* run_all_tests calls made on one suite
MaxRuns == 1
\* direct log_vulnerability calls made on the testers of one suite
MaxLogs == 1

\* ------------------------------------------------------------------------
\* Small helpers
\* ------------------------------------------------------------------------
\* dict.get(key, default)
Get(d, key, default) == IF key \in DOMAIN d THEN d[key] ELSE default

SeqsUpTo(S, n) == UNION {[1..k -> S] : k \in 0..n}

RECURSIVE SumSeq(_)
SumSeq(s) == IF s = <<>> THEN 0 ELSE Head(s) + SumSeq(Tail(s))

\* ------------------------------------------------------------------------
\* Strings whose characters matter are sequences of one-character strings
\* ------------------------------------------------------------------------
UpperToLower ==
    [A |-> "a", B |-> "b", C |-> "c", D |-> "d", E |-> "e", F |-> "f",
     G |-> "g", H |-> "h", I |-> "i", J |-> "j", K |-> "k", L |-> "l",
     M |-> "m", N |-> "n", O |-> "o", P |-> "p", Q |-> "q", R |-> "r",
     S |-> "s", T |-> "t", U |-> "u", V |-> "v", W |-> "w", X |-> "x",
     Y |-> "y", Z |-> "z"]

\* str.lower()
lower(s) == [i \in DOMAIN s |->
               IF s[i] \in DOMAIN UpperToLower THEN UpperToLower[s[i]] ELSE s[i]]

\* sub in s
Contains(sub, s) ==
    \E i \in 1..(Len(s) - Len(sub) + 1) : SubSeq(s, i, i + Len(sub) - 1) = sub

critical == <<"c", "r", "i", "t", "i", "c", "a", "l">>

\* ------------------------------------------------------------------------
\* Contents of the reports directory
\* ------------------------------------------------------------------------
Severities == {"HIGH", "MEDIUM", "LOW"}

\* a value that is not a JSON object (a string, a number, null)
NotAMapping == [not_a_mapping |-> TRUE]
IsMapping(v) == "not_a_mapping" \notin DOMAIN v

\* entries of a "vulnerabilities" list as a file may hold them
VulnHigh   == [type |-> "ACCESS_CONTROL", description |-> "bypass", severity |-> "HIGH"]
VulnMedium == [type |-> "SLIPPAGE", description |-> "no slippage check", severity |-> "MEDIUM"]
VulnLow    == [type |-> "INFO", description |-> "note", severity |-> "LOW"]
\* {} : every field takes its default
VulnBare   == [timestamp |-> 0]
\* a severity outside HIGH, MEDIUM, LOW
VulnBadSeverity == [type |-> "GAS_LIMIT", description |-> "gas", severity |-> "CRITICAL"]

WellFormedVulns == {VulnHigh, VulnMedium, VulnLow, VulnBare}
VulnRecords == WellFormedVulns \cup {VulnBadSeverity, NotAMapping}

ErrorReport == [error |-> "probe failed"]
\* the entry  "total_vulnerabilities": 0  at the top level of a file
TotalEntry == [not_a_mapping |-> TRUE, number |-> 0]

\* category entries whose lists hold at most n records
CategoryEntries(n) ==
    {ErrorReport} \cup {[vulnerabilities |-> v] : v \in SeqsUpTo(VulnRecords, n)}

\* the key of entry i of a test-results file: total_vulnerabilities for
\* that entry, the name of a probe category for any other
KeyOf(json, i) ==
    IF json[i] = TotalEntry THEN "total_vulnerabilities"
    ELSE <<"reentrancy", "overflow", "access_control", "gas_limit",
           "front_running", "oracle", "slippage", "flash_loan">>[i]

NumRecords(entry) ==
    IF "vulnerabilities" \in DOMAIN entry THEN Len(entry.vulnerabilities) ELSE 0

\* sequences of exactly k category entries holding at most n records
RECURSIVE CategorySeqs(_, _)
CategorySeqs(k, n) ==
    IF k = 0 THEN {<<>>}
    ELSE UNION {{<<c>> \o rest : rest \in CategorySeqs(k - 1, n - NumRecords(c))}
                   : c \in CategoryEntries(n)}

Absent == [exists |-> FALSE]
Unparsable == [exists |-> TRUE, parsable |-> FALSE]
JsonFile(content) == [exists |-> TRUE, parsable |-> TRUE, json |-> content]

\* states of one test-results file of at most m entries holding at most n
\* records: category entries, or the single entry total_vulnerabilities
TestReportFiles(m, n) ==
    {Absent, Unparsable}
    \cup {JsonFile(cs) : cs \in UNION {CategorySeqs(k, n) : k \in 0..m}}
    \cup (IF m >= 1 THEN {JsonFile(<<TotalEntry>>)} ELSE {})

\* detector records of the external tool
ImpactCritical == <<"C", "r", "i", "t", "i", "c", "a", "l">>
ImpactHigh == <<"H", "i", "g", "h">>
DetCritical == [check |-> "suicidal", description |-> "selfdestruct", impact |-> ImpactCritical]
DetHigh     == [check |-> "reentrancy-eth", description |-> "reentrant call", impact |-> ImpactHigh]
DetNoImpact == [check |-> "naming", description |-> "style"]

DetectorRecords == {DetCritical, DetHigh, DetNoImpact}

SlitherOutput(n) ==
    {JsonFile([results |-> [detectors |-> ds]]) : ds \in SeqsUpTo(DetectorRecords, n)}

SlitherFiles(n) == {Absent, Unparsable} \cup SlitherOutput(n)

\* ------------------------------------------------------------------------
\* Paths
\* ------------------------------------------------------------------------
test_files == <<"test_security_comprehensive.py", "test_reentrancy_specific.py">>

\* f"reports/{test_file.replace('.py', '_report.json')}"
report_path ==
    [tf \in {"test_security_comprehensive.py", "test_reentrancy_specific.py"} |->
        IF tf = "test_security_comprehensive.py"
        THEN "reports/test_security_comprehensive_report.json"
        ELSE "reports/test_reentrancy_specific_report.json"]

slither_path == "reports/slither_report.json"

\* records held by a test-results file and by the detector file
TestFileRecords(f) ==
    IF ~f.exists \/ ~f.parsable THEN 0
    ELSE SumSeq([i \in DOMAIN f.json |-> NumRecords(f.json[i])])

TestFileCats(f) == IF ~f.exists \/ ~f.parsable THEN 0 ELSE Len(f.json)

SlitherFileRecords(f) ==
    IF ~f.exists \/ ~f.parsable THEN 0 ELSE Len(f.json.results.detectors)

\* the reports directory holding the three files the aggregation reads
ReportsDir(f1, f2, s) ==
    (report_path[test_files[1]] :> f1) @@ (report_path[test_files[2]] :> f2)
      @@ (slither_path :> s)

VARIABLES
    reports_dir,            \* path -> file
    pc,                     \* position of main()
    scan_outcome,           \* how the subprocess of run_security_scan ended
    report,                 \* the dict generate_comprehensive_report builds
    total_vulnerabilities,  \* local of generate_comprehensive_report
    severity_counts,        \* local of generate_comprehensive_report
    testers,                \* category -> vulnerabilities_found of its tester
    contract,               \* argument of the active run_all_tests call
    test_config,            \* argument of the active run_all_tests call
    results,                \* local of the active run_all_tests call
    idx,                    \* registry position of the active call, 0: no call
    fi,                     \* next entry point of the category under test
    returned,               \* the map the last run_all_tests call returned
    text_report,            \* the summary of the last generate_report call
    runs,                   \* run_all_tests calls made
    logs,                   \* direct log_vulnerability calls made
    declared,               \* keys the configurations of the calls declared
    listed,                 \* entry points the configurations of the calls listed
    trace,                  \* the target calls of the last probe call
    json_report,            \* reports/comprehensive_security_report.json
    markdown,               \* reports/security_report.md
    exit_status,            \* how the process of main() ended
    previous                \* the copy a client kept of the map of the run before

outVars == <<json_report, markdown, exit_status>>
mainVars == <<reports_dir, pc, scan_outcome, report, total_vulnerabilities, severity_counts,
              json_report, markdown, exit_status>>
suiteVars == <<testers, contract, test_config, results, idx, fi, returned, text_report,
               runs, logs, declared, listed, trace, previous>>
vars == <<reports_dir, pc, scan_outcome, report, total_vulnerabilities, severity_counts,
          testers, contract, test_config, results, idx, fi, returned, text_report,
          runs, logs, declared, listed, trace, json_report, markdown, exit_status,
          previous>>

NoFiles == [tf \in {} |-> Absent]

EmptyReport ==
    [test_results |-> NoFiles, vulnerabilities |-> <<>>]

\* the registry with slippage registered before reentrancy
Registry_SlippageFirst ==
    <<"slippage", "overflow", "access_control", "gas_limit",
      "front_running", "oracle", "reentrancy", "flash_loan">>

\* SecurityTestSuite.__init__: the registry, in insertion order
Registry == <<"reentrancy", "overflow", "access_control", "gas_limit",
              "front_running", "oracle", "slippage", "flash_loan">>
Categories == {Registry[i] : i \in DOMAIN Registry}

NoContract == [is_none |-> TRUE]
NoConfig == [is_none |-> TRUE]
NoResults == [c \in {} |-> [error |-> "none"]]
NoTextReport == [called |-> FALSE]
NoTrace == <<>>

\* a suite right after construction, no call made on it
FreshSuite ==
    /\ testers = [c \in Categories |-> <<>>]
    /\ contract = NoContract
    /\ test_config = NoConfig
    /\ results = NoResults
    /\ idx = 0
    /\ fi = 1
    /\ returned = NoResults
    /\ text_report = NoTextReport
    /\ runs = 0
    /\ logs = 0
    /\ declared = 0
    /\ listed = 0
    /\ trace = NoTrace
    /\ previous = NoResults

\* an artifact of the run: not reached, open(path, "w") or the write
\* raised, or written with a content
NotWritten == [status |-> "none"]
WriteFailed == [status |-> "failed"]
Written(content) == [status |-> "written", content |-> content]

\* the process of main(): running, or ended with an exit status
Running == [exited |-> FALSE]
Exited(status) == [exited |-> TRUE, status |-> status]

\* nothing written yet, the process is running
NoOutput ==
    /\ json_report = NotWritten
    /\ markdown = NotWritten
    /\ exit_status = Running

\* no aggregation run in progress
MainIdle ==
    /\ reports_dir = ReportsDir(Absent, Absent, Absent)
    /\ pc = "idle"
    /\ scan_outcome = "none"
    /\ report = EmptyReport
    /\ total_vulnerabilities = 0
    /\ severity_counts = [HIGH |-> 0, MEDIUM |-> 0, LOW |-> 0]
    /\ NoOutput

InitMain ==
    /\ \E f1 \in TestReportFiles(MaxCats, MaxRecords) :
       \E f2 \in TestReportFiles(MaxCats - TestFileCats(f1),
                                  MaxRecords - TestFileRecords(f1)) :
       \E s \in SlitherFiles(MaxRecords - TestFileRecords(f1) - TestFileRecords(f2)) :
          reports_dir = ReportsDir(f1, f2, s)
    /\ pc = "run_tests"
    /\ scan_outcome = "none"
    /\ report = EmptyReport
    /\ total_vulnerabilities = 0
    /\ severity_counts = [HIGH |-> 0, MEDIUM |-> 0, LOW |-> 0]
    /\ NoOutput
    /\ FreshSuite

\* ------------------------------------------------------------------------
\* main(): the two run_brownie_tests calls.  Whatever the subprocess does
\* (exit status, timeout, error), the call returns a boolean that main()
\* stores in a local it never reads again; none of the files the
\* aggregation reads is written: the test suites write
\* reports/vault_security_report.json, token_, defi_, auction_,
\* nft_marketplace_ and token_sale_security_report.json, paths that no
\* step of the aggregation opens.
\* ------------------------------------------------------------------------
\* the test run writing the report of a suite where the aggregation looks
\* for it
run_brownie_tests_WritesReport ==
    /\ pc = "run_tests"
    /\ pc' = "scan"
    /\ reports_dir' =
         [reports_dir EXCEPT ![report_path[test_files[1]]] =
             JsonFile(<<[total_vulnerabilities |-> 0, vulnerabilities |-> <<>>,
                         severity_counts |-> [HIGH |-> 0, MEDIUM |-> 0, LOW |-> 0]]>>)]
    /\ UNCHANGED <<scan_outcome, report, total_vulnerabilities, severity_counts>>
    /\ UNCHANGED outVars
    /\ UNCHANGED suiteVars

run_brownie_tests ==
    /\ pc = "run_tests"
    /\ pc' = "scan"
    /\ UNCHANGED <<reports_dir, scan_outcome, report, total_vulnerabilities, severity_counts>>
    /\ UNCHANGED outVars
    /\ UNCHANGED suiteVars

\* ------------------------------------------------------------------------
\* run_security_scan(): every branch only prints.  The subprocess writes
\* reports/slither_report.json when it runs to its end.
\* ------------------------------------------------------------------------
ScanOutcomes == {"ok", "error", "timeout", "not_found"}

run_security_scan ==
    /\ pc = "scan"
    /\ \E outcome \in ScanOutcomes :
         /\ scan_outcome' = outcome
         /\ LET room == MaxRecords
                          - TestFileRecords(reports_dir[report_path[test_files[1]]])
                          - TestFileRecords(reports_dir[report_path[test_files[2]]])
            IN  \/ /\ outcome = "ok"
                   /\ \E out \in SlitherOutput(room) :
                        reports_dir' = [reports_dir EXCEPT ![slither_path] = out]
                \/ /\ outcome \in {"error", "timeout", "not_found"}
                   /\ UNCHANGED reports_dir
    /\ pc' = "collect"
    /\ UNCHANGED <<report, total_vulnerabilities, severity_counts>>
    /\ UNCHANGED outVars
    /\ UNCHANGED suiteVars

\* ------------------------------------------------------------------------
\* generate_comprehensive_report(), lines 92-129: collect test results
\* ------------------------------------------------------------------------
\* the state the loops work on; raised marks an exception in flight
Acc(rep, total, counts) ==
    [report |-> rep, total_vulnerabilities |-> total, severity_counts |-> counts,
     raised |-> FALSE]

\* lines 119-126: one vulnerability record
CountVuln(acc, test_file, vuln) ==
    IF ~IsMapping(vuln) THEN [acc EXCEPT !.raised = TRUE]
    ELSE LET severity == Get(vuln, "severity", "LOW") IN
         IF severity \notin DOMAIN acc.severity_counts
         THEN [acc EXCEPT !.raised = TRUE]
         ELSE [acc EXCEPT
                 !.severity_counts[severity] = @ + 1,
                 !.report.vulnerabilities =
                     Append(@, [test_file |-> test_file,
                                type |-> Get(vuln, "type", "Unknown"),
                                description |-> Get(vuln, "description", "No description"),
                                severity |-> severity])]

\* lines 118-126: the loop over one list, stopped by an exception
RECURSIVE CountVulns(_, _, _)
CountVulns(acc, test_file, vulns) ==
    IF vulns = <<>> \/ acc.raised THEN acc
    ELSE CountVulns(CountVuln(acc, test_file, Head(vulns)), test_file, Tail(vulns))

\* lines 114-126: one category entry
CountResult(acc, test_file, result) ==
    IF IsMapping(result) /\ "vulnerabilities" \in DOMAIN result
    THEN LET vulns == result.vulnerabilities IN
         CountVulns([acc EXCEPT !.total_vulnerabilities = @ + Len(vulns)],
                    test_file, vulns)
    ELSE acc

\* lines 113-126: the loop over the entries of one file
RECURSIVE CountResults(_, _, _)
CountResults(acc, test_file, entries) ==
    IF entries = <<>> \/ acc.raised THEN acc
    ELSE CountResults(CountResult(acc, test_file, Head(entries)), test_file, Tail(entries))

\* lines 102-129: one test file; the except clause swallows the exception
\* and keeps what was done before it
CollectFile(acc, test_file) ==
    LET file == reports_dir[report_path[test_file]] IN
    IF ~file.exists THEN acc
    ELSE IF ~file.parsable THEN acc
    ELSE LET test_results == file.json
             stored == [acc EXCEPT !.report.test_results =
                                      (test_file :> test_results) @@ @]
         IN  [CountResults(stored, test_file, test_results) EXCEPT !.raised = FALSE]

RECURSIVE CollectFiles(_, _)
CollectFiles(acc, files) ==
    IF files = <<>> THEN acc
    ELSE CollectFiles(CollectFile(acc, Head(files)), Tail(files))

collect_test_results ==
    /\ pc = "collect"
    /\ LET acc == CollectFiles(Acc(report, total_vulnerabilities, severity_counts),
                               test_files)
       IN  /\ report' = acc.report
           /\ total_vulnerabilities' = acc.total_vulnerabilities
           /\ severity_counts' = acc.severity_counts
    /\ pc' = "slither"
    /\ UNCHANGED <<reports_dir, scan_outcome>>
    /\ UNCHANGED outVars
    /\ UNCHANGED suiteVars

\* ------------------------------------------------------------------------
\* generate_comprehensive_report(), lines 131-154: add Slither results
\* ------------------------------------------------------------------------
\* line 142 without .lower()
SlitherSeverity_CaseSensitive(detector) ==
    IF Contains(critical, Get(detector, "impact", <<>>)) THEN "HIGH" ELSE "MEDIUM"

\* line 142
SlitherSeverity(detector) ==
    IF Contains(critical, lower(Get(detector, "impact", <<>>))) THEN "HIGH" ELSE "MEDIUM"

\* CountDetector assigning the list where the code appends to it
CountDetector_Assign(acc, detector) ==
    IF ~IsMapping(detector) THEN [acc EXCEPT !.raised = TRUE]
    ELSE LET severity == SlitherSeverity(detector) IN
         [acc EXCEPT
            !.severity_counts[severity] = @ + 1,
            !.total_vulnerabilities = @ + 1,
            !.report.vulnerabilities =
                <<[test_file |-> "slither",
                   type |-> Get(detector, "check", "Unknown"),
                   description |-> Get(detector, "description", "No description"),
                   severity |-> severity]>>]

\* lines 142-151: one detector record
CountDetector(acc, detector) ==
    IF ~IsMapping(detector) THEN [acc EXCEPT !.raised = TRUE]
    ELSE LET severity == SlitherSeverity(detector) IN
         [acc EXCEPT
            !.severity_counts[severity] = @ + 1,
            !.total_vulnerabilities = @ + 1,
            !.report.vulnerabilities =
                Append(@, [test_file |-> "slither",
                           type |-> Get(detector, "check", "Unknown"),
                           description |-> Get(detector, "description", "No description"),
                           severity |-> severity])]

RECURSIVE CountDetectors(_, _)
CountDetectors(acc, detectors) ==
    IF detectors = <<>> \/ acc.raised THEN acc
    ELSE CountDetectors(CountDetector(acc, Head(detectors)), Tail(detectors))

\* slither_results.get('results', {}).get('detectors', [])
DetectorsOf(slither_results) ==
    Get(Get(slither_results, "results", [detectors |-> <<>>]), "detectors", <<>>)

AddSlither(acc) ==
    LET file == reports_dir[slither_path] IN
    IF ~file.exists THEN acc
    ELSE IF ~file.parsable THEN acc
    ELSE LET slither_results == file.json
             stored == [report |-> [slither_results |-> slither_results] @@ acc.report,
                        total_vulnerabilities |-> acc.total_vulnerabilities,
                        severity_counts |-> acc.severity_counts,
                        raised |-> FALSE]
         IN  [CountDetectors(stored, DetectorsOf(slither_results)) EXCEPT !.raised = FALSE]

add_slither_results ==
    /\ pc = "slither"
    /\ LET acc == AddSlither(Acc(report, total_vulnerabilities, severity_counts))
       IN  /\ report' = acc.report
           /\ total_vulnerabilities' = acc.total_vulnerabilities
           /\ severity_counts' = acc.severity_counts
    /\ pc' = "summary"
    /\ UNCHANGED <<reports_dir, scan_outcome>>
    /\ UNCHANGED outVars
    /\ UNCHANGED suiteVars

\* ------------------------------------------------------------------------
\* generate_comprehensive_report(), lines 156-161: the summary
\* ------------------------------------------------------------------------
\* RiskLevel with the two tests in the wrong order
RiskLevel_MediumFirst(counts) ==
    IF counts["MEDIUM"] > 0 THEN "MEDIUM"
    ELSE IF counts["HIGH"] > 0 THEN "HIGH"
    ELSE "LOW"

\* line 160
RiskLevel(counts) ==
    IF counts["HIGH"] > 0 THEN "HIGH"
    ELSE IF counts["MEDIUM"] > 0 THEN "MEDIUM"
    ELSE "LOW"

generate_summary ==
    /\ pc = "summary"
    /\ report' = [summary |-> [total_vulnerabilities |-> total_vulnerabilities,
                               severity_counts |-> severity_counts,
                               risk_level |-> RiskLevel(severity_counts)]]
                 @@ report
    /\ pc' = "done"
    /\ UNCHANGED <<reports_dir, scan_outcome, total_vulnerabilities, severity_counts>>
    /\ UNCHANGED outVars
    /\ UNCHANGED suiteVars

\* ------------------------------------------------------------------------
\* generate_comprehensive_report(), lines 163-165: the JSON report.  An
\* exception of open or json.dump is caught nowhere: it leaves
\* generate_comprehensive_report and main, and the process ends with the
\* traceback and exit status 1.
\* ------------------------------------------------------------------------
save_json ==
    /\ pc = "done"
    /\ \/ /\ json_report' = Written(report)
          /\ pc' = "markdown"
          /\ UNCHANGED exit_status
       \/ /\ json_report' = WriteFailed
          /\ pc' = "exited"
          /\ exit_status' = Exited(1)
    /\ UNCHANGED <<reports_dir, scan_outcome, report, total_vulnerabilities, severity_counts,
                   markdown>>
    /\ UNCHANGED suiteVars

\* ------------------------------------------------------------------------
\* generate_markdown_report(report)
\* ------------------------------------------------------------------------
\* line 199: f"- **{type}**: {description} (Found in {test_file})"
MarkdownItem(vuln) ==
    [type |-> vuln.type, description |-> vuln.description, test_file |-> vuln.test_file]

\* lines 196-201: the group of one severity, none when no finding has it
MarkdownGroup(vulns, severity, heading) ==
    LET group == SelectSeq(vulns, LAMBDA v : v.severity = severity) IN
    IF group = <<>> THEN <<>>
    ELSE <<[heading |-> heading,
            items |-> [i \in DOMAIN group |-> MarkdownItem(group[i])]]>>

\* the groups with the medium severity first
MarkdownGroups_MediumFirst(vulns) ==
    MarkdownGroup(vulns, "MEDIUM", "### Medium Severity Vulnerabilities")
    \o MarkdownGroup(vulns, "HIGH", "### High Severity Vulnerabilities")
    \o MarkdownGroup(vulns, "LOW", "### Low Severity Vulnerabilities")

\* lines 195-217
MarkdownGroups(vulns) ==
    MarkdownGroup(vulns, "HIGH", "### High Severity Vulnerabilities")
    \o MarkdownGroup(vulns, "MEDIUM", "### Medium Severity Vulnerabilities")
    \o MarkdownGroup(vulns, "LOW", "### Low Severity Vulnerabilities")

\* lines 241-245: one heading for each file of test_results, in insertion
\* order, followed by the line "Vulnerabilities Found" when the file has
\* the key total_vulnerabilities at its top level
MarkdownCoverageOf(test_file, entries) ==
    [heading |-> test_file,
     found |-> IF \E i \in DOMAIN entries : KeyOf(entries, i) = "total_vulnerabilities"
               THEN <<entries[CHOOSE i \in DOMAIN entries :
                                 KeyOf(entries, i) = "total_vulnerabilities"].number>>
               ELSE <<>>]

MarkdownCoverage(rep) ==
    LET files == SelectSeq(test_files, LAMBDA tf : tf \in DOMAIN rep.test_results) IN
    [k \in DOMAIN files |-> MarkdownCoverageOf(files[k], rep.test_results[files[k]])]

\* the text of lines 178-257, as the parts that depend on the report
Markdown(rep) ==
    [summary |-> rep.summary,
     groups |-> MarkdownGroups(rep.vulnerabilities),
     coverage |-> MarkdownCoverage(rep)]

\* line 168; lines 259-260 write the file, and an exception of open or
\* write ends the process like one of the JSON report
generate_markdown_report ==
    /\ pc = "markdown"
    /\ \/ /\ markdown' = Written(Markdown(report))
          /\ pc' = "returned"
          /\ UNCHANGED exit_status
       \/ /\ markdown' = WriteFailed
          /\ pc' = "exited"
          /\ exit_status' = Exited(1)
    /\ UNCHANGED <<reports_dir, scan_outcome, report, total_vulnerabilities, severity_counts,
                   json_report>>
    /\ UNCHANGED suiteVars

\* ------------------------------------------------------------------------
\* main(), lines 291-319: the summary is printed and main returns the
\* report to the module's last line, which drops it: the interpreter ends
\* with exit status 0.  No line calls sys.exit.
\* ------------------------------------------------------------------------
main_return ==
    /\ pc = "returned"
    /\ pc' = "exited"
    /\ exit_status' = Exited(0)
    /\ UNCHANGED <<reports_dir, scan_outcome, report, total_vulnerabilities, severity_counts,
                   json_report, markdown>>
    /\ UNCHANGED suiteVars

NextMain ==
    \/ run_brownie_tests
    \/ run_security_scan
    \/ collect_test_results
    \/ add_slither_results
    \/ generate_summary
    \/ save_json
    \/ generate_markdown_report
    \/ main_return

SpecMain == InitMain /\ [][NextMain]_vars

\* ========================================================================
\* utils/security_helpers.py
\* ========================================================================
\* A finding is the dict log_vulnerability builds, without its timestamp
\* (a clock reading no code of the repository reads back).  A description
\* is the f-string's fixed text with the values it interpolates.
Description(text, function, detail) ==
    [text |-> text, function |-> function, detail |-> detail]

\* SecurityTester.log_vulnerability
LogVulnerability(found, vuln_type, description, severity) ==
    Append(found, [type |-> vuln_type, description |-> description,
                   severity |-> severity])

\* SecurityTester._count_by_severity; raised: the KeyError of line 41
RECURSIVE CountBySeverityFrom(_, _)
CountBySeverityFrom(counts, found) ==
    IF found = <<>> THEN [raised |-> FALSE, counts |-> counts]
    ELSE IF Head(found).severity \notin DOMAIN counts
         THEN [raised |-> TRUE, counts |-> counts]
         ELSE CountBySeverityFrom(
                  [counts EXCEPT ![Head(found).severity] = @ + 1], Tail(found))

\* _count_by_severity that passes over a severity it does not know
RECURSIVE CountBySeverity_SkipUnknown(_)
CountBySeverity_SkipUnknown(found) ==
    IF found = <<>> THEN [raised |-> FALSE,
                          counts |-> [HIGH |-> 0, MEDIUM |-> 0, LOW |-> 0]]
    ELSE LET rest == CountBySeverity_SkipUnknown(
                         SubSeq(found, 1, Len(found) - 1))
             last == found[Len(found)]
         IN  IF last.severity \notin DOMAIN rest.counts THEN rest
             ELSE [rest EXCEPT !.counts[last.severity] = @ + 1]

CountBySeverity(found) ==
    CountBySeverityFrom([HIGH |-> 0, MEDIUM |-> 0, LOW |-> 0], found)

\* SecurityTester.get_vulnerability_report on the tester of category c.
\* "vulnerabilities" is the tester's list object itself, not a copy: the
\* report holds the name of the tester that owns the list.
GetVulnerabilityReport(c) ==
    LET counted == CountBySeverity(testers[c]) IN
    IF counted.raised THEN [raised |-> TRUE, message |-> "KeyError"]
    ELSE [raised |-> FALSE,
          report |-> [total_vulnerabilities |-> Len(testers[c]),
                      vulnerabilities |-> c,
                      severity_counts |-> counted.counts]]

\* the list a report shows when its "vulnerabilities" entry is read
Findings(rep) == testers[rep.vulnerabilities]

\* ------------------------------------------------------------------------
\* The target and what its calls answer
\* ------------------------------------------------------------------------
FunctionNames == {"withdraw", "mint"}
Contracts == {NoContract} \cup {[functions |-> {"withdraw"}]}

\* the probes without the hasattr test
HasAttr_Always(c, function_name) == TRUE

\* hasattr(contract, function_name)
HasAttr(c, function_name) ==
    "functions" \in DOMAIN c /\ function_name \in c.functions

RevertMsg == <<"r", "e", "v", "e", "r", "t">>
\* a revert whose reason string is "Out of gas budget"
RevertReasonMsg == <<"r", "e", "v", "e", "r", "t", ":", " ", "O", "u", "t", " ", "o", "f",
                     " ", "g", "a", "s", " ", "b", "u", "d", "g", "e", "t">>
\* the call ran out of gas
OutOfGasMsg == <<"O", "u", "t", " ", "o", "f", " ", "g", "a", "s">>
\* the call never reached the target: wrong number of arguments
TypeErrorMsg == <<"T", "y", "p", "e", "E", "r", "r", "o", "r">>
out_of_gas == <<"o", "u", "t", " ", "o", "f", " ", "g", "a", "s">>

\* a call that completes, and a call that raises
Ok(gas_used, value) == [status |-> "ok", gas_used |-> gas_used, value |-> value]
Raised(message) == [status |-> "raised", message |-> message]

GasMark == 8000000
\* 1000 * 10**18, in units of 10**18
OracleSentinel == 1000

PlainOutcomes == {Ok(21000, 0), Raised(RevertMsg), Raised(TypeErrorMsg)}
GasOutcomes == {Ok(GasMark, 0), Ok(GasMark + 1, 0), Raised(OutOfGasMsg), Raised(RevertMsg),
                Raised(RevertReasonMsg)}

\* the answers to the five calls of the overflow probe: each call completes
\* or reverts, or the entry point takes another number of arguments and
\* every call raises TypeError
OverflowOutcomes ==
    [1..5 -> {Ok(21000, 0), Raised(RevertMsg)}]
    \cup {[i \in 1..5 |-> Raised(TypeErrorMsg)]}

\* the answers to the calls of the gas probe, up to the first one that
\* raises
GasOutcomeSeqs ==
    {o \in SeqsUpTo(GasOutcomes, 4) :
        /\ Len(o) >= 1
        /\ \A k \in 1..(Len(o) - 1) : o[k].status = "ok"
        /\ Len(o) = 4 \/ o[Len(o)].status = "raised"}
    \cup {<<Raised(TypeErrorMsg)>>}
OracleOutcomes == {Ok(21000, OracleSentinel), Ok(21000, OracleSentinel - 1), Raised(RevertMsg)}

\* the result of one probe call: the tester's list, whether an exception
\* left the probe, and the calls the probe made on the target
Returns(found) == [found |-> found, raised |-> FALSE, message |-> "none"]
Raises(found, message) == [found |-> found, raised |-> TRUE, message |-> message]
WithCalls(result, calls) == [calls |-> calls] @@ result

\* one call on the target: what was called with what, how it ended and
\* what the probe logged while it handled the call
Call(function_name, input, outcome, found, found_after) ==
    [function |-> function_name, input |-> input, outcome |-> outcome,
     logged |-> SubSeq(found_after, Len(found) + 1, Len(found_after))]

\* the list and the calls so far, after one more call is handled
Handled(acc, function_name, input, outcome, found_after) ==
    [found |-> found_after,
     calls |-> Append(acc.calls, Call(function_name, input, outcome, acc.found, found_after))]

NoArgs == [no_args |-> TRUE]
NoCalls == <<>>

\* ------------------------------------------------------------------------
\* ReentrancyTester.test_reentrancy.  _deploy_attacker_contract returns
\* None, so attacker_contract.attack raises inside the try block whatever
\* the target is.  contract.address and contract.balance() are outside it.
\* ------------------------------------------------------------------------
test_reentrancy(found, target, vulnerable_function, balance_raises) ==
    IF target = NoContract THEN WithCalls(Raises(found, "AttributeError"), NoCalls)
    ELSE IF balance_raises
         THEN WithCalls(Raises(found, "balance failed"),
                  <<Call("balance", NoArgs, Raised(TypeErrorMsg), found, found)>>)
    ELSE WithCalls(Returns(found),
             <<Call("balance", NoArgs, Ok(0, 0), found, found)>>)

\* ------------------------------------------------------------------------
\* IntegerOverflowTester.test_overflow.  The inputs are kept as offsets
\* from 0 and from max_uint256 = 2**256 - 1.
\* ------------------------------------------------------------------------
FromZero(k) == [base |-> "zero", offset |-> k]
FromMax(k) == [base |-> "max_uint256", offset |-> k]
test_cases == <<FromMax(0), FromMax(-1), FromMax(1), FromZero(0), FromZero(-1)>>

\* the test of line 115 with >= and <= for > and <
OutOfRange_Inclusive(x) ==
    \/ x.base = "max_uint256" /\ x.offset >= 0
    \/ x.base = "zero" /\ x.offset <= 0

\* test_input > max_uint256 or test_input < 0
OutOfRange(x) ==
    \/ x.base = "max_uint256" /\ x.offset > 0
    \/ x.base = "zero" /\ x.offset < 0

InputName(x) ==
    IF x.base = "zero" THEN ToString(x.offset)
    ELSE IF x.offset = 0 THEN "max_uint256"
    ELSE IF x.offset > 0 THEN "max_uint256+1" ELSE "max_uint256-1"

\* lines 110-124: one input
OverflowCase(found, function_name, test_input, outcome) ==
    IF outcome.status = "ok" /\ OutOfRange(test_input)
    THEN LogVulnerability(found, "INTEGER_OVERFLOW",
             Description("Integer overflow", function_name, InputName(test_input)), "HIGH")
    ELSE found

RECURSIVE OverflowCases(_, _, _, _)
OverflowCases(acc, function_name, outcomes, i) ==
    IF i > Len(test_cases) THEN acc
    ELSE OverflowCases(
            Handled(acc, function_name, test_cases[i], outcomes[i],
                    OverflowCase(acc.found, function_name, test_cases[i], outcomes[i])),
            function_name, outcomes, i + 1)

test_overflow(found, target, function_name, outcomes) ==
    IF HasAttr(target, function_name)
    THEN LET done == OverflowCases([found |-> found, calls |-> NoCalls],
                                   function_name, outcomes, 1)
         IN WithCalls(Returns(done.found), done.calls)
    ELSE WithCalls(Returns(found), NoCalls)

\* ------------------------------------------------------------------------
\* AccessControlTester.test_access_control
\* ------------------------------------------------------------------------
\* {"from": unauthorized_account}, unauthorized_account = self.accounts[1]
FromUnauthorized == [from |-> "accounts[1]"]

\* the handling of one call with the finding logged in the except branch
\* as well
AccessControlCall_LogsOnFailure(found, function_name, outcome) ==
    LogVulnerability(found, "ACCESS_CONTROL",
        Description("Access control bypass", function_name, ""), "HIGH")

\* lines 144-158: one restricted function the target has
AccessControlCall(found, function_name, outcome) ==
    IF outcome.status = "ok"
    THEN LogVulnerability(found, "ACCESS_CONTROL",
             Description("Access control bypass", function_name, ""), "HIGH")
    ELSE found

RECURSIVE AccessControlCalls(_, _, _, _, _)
AccessControlCalls(acc, target, restricted_functions, outcomes, i) ==
    IF i > Len(restricted_functions) THEN acc
    ELSE AccessControlCalls(
            IF HasAttr(target, restricted_functions[i])
            THEN Handled(acc, restricted_functions[i], FromUnauthorized, outcomes[i],
                         AccessControlCall(acc.found, restricted_functions[i], outcomes[i]))
            ELSE acc,
            target, restricted_functions, outcomes, i + 1)

test_access_control(found, target, restricted_functions, outcomes) ==
    LET done == AccessControlCalls([found |-> found, calls |-> NoCalls],
                                   target, restricted_functions, outcomes, 1)
    IN WithCalls(Returns(done.found), done.calls)

\* ------------------------------------------------------------------------
\* GasLimitTester.test_gas_limit
\* ------------------------------------------------------------------------
iteration_counts == <<100, 500, 1000, 5000>>

\* lines 174-193: one iteration count
GasCall(found, function_name, i, outcome) ==
    IF outcome.status = "ok"
    THEN IF outcome.gas_used > GasMark
         THEN LogVulnerability(found, "GAS_LIMIT",
                  Description("High gas usage", function_name,
                              ToString(outcome.gas_used)), "MEDIUM")
         ELSE found
    ELSE IF Contains(out_of_gas, lower(outcome.message))
         THEN LogVulnerability(found, "GAS_LIMIT_DOS",
                  Description("Gas limit DoS", function_name, ToString(i)), "HIGH")
         ELSE found

\* the loop without the break statement: after a call that raised, the
\* remaining iteration counts are tried all the same and fail the same way
RECURSIVE GasCalls_NoBreak(_, _, _, _)
GasCalls_NoBreak(acc, function_name, outcomes, k) ==
    IF k > Len(iteration_counts) THEN acc
    ELSE LET outcome == IF k <= Len(outcomes) THEN outcomes[k]
                        ELSE outcomes[Len(outcomes)]
         IN GasCalls_NoBreak(
                Handled(acc, function_name, FromZero(iteration_counts[k]), outcome,
                        GasCall(acc.found, function_name, iteration_counts[k], outcome)),
                function_name, outcomes, k + 1)

RECURSIVE GasCalls(_, _, _, _)
GasCalls(acc, function_name, outcomes, k) ==
    IF k > Len(iteration_counts) THEN acc
    ELSE LET next == Handled(acc, function_name, FromZero(iteration_counts[k]), outcomes[k],
                             GasCall(acc.found, function_name, iteration_counts[k],
                                     outcomes[k]))
         IN IF outcomes[k].status = "ok"
            THEN GasCalls(next, function_name, outcomes, k + 1)
            ELSE next

test_gas_limit(found, target, function_name, outcomes) ==
    IF HasAttr(target, function_name)
    THEN LET done == GasCalls([found |-> found, calls |-> NoCalls],
                              function_name, outcomes, 1)
         IN WithCalls(Returns(done.found), done.calls)
    ELSE WithCalls(Returns(found), NoCalls)

\* ------------------------------------------------------------------------
\* FrontRunningTester.test_front_running.  getattr raises AttributeError
\* inside the try block when the target lacks the entry point; the second
\* call is made when the first one returned.
\* ------------------------------------------------------------------------
\* {"value": value} and {"value": value + 1, "gasPrice": ...}
VictimArgs == [value_plus |-> 0]
AttackerArgs == [value_plus |-> 1, gasPrice |-> "victim_tx.gas_price + 1000000000"]

\* the answers to the calls of the front-running probe: to the first call,
\* and to the second one when the first completed and what it returned has
\* a gas_price (reading it raises inside the try block otherwise)
FrontRunningOutcomes ==
    {<<o>> : o \in {Raised(RevertMsg), Raised(TypeErrorMsg), Ok(21000, 0)}}
    \cup {<<Ok(21000, 0), o>> : o \in PlainOutcomes}

\* the probe with a finding logged when both transactions went through
test_front_running_LogsWhenMined(found, target, function_name, outcomes) ==
    IF "functions" \in DOMAIN target /\ function_name \in target.functions
    THEN [calls |-> [i \in DOMAIN outcomes |->
                        [function |-> function_name,
                         input |-> IF i = 1 THEN VictimArgs ELSE AttackerArgs,
                         outcome |-> outcomes[i],
                         logged |-> <<>>]],
          found |-> IF Len(outcomes) = 2 /\ outcomes[2].status = "ok"
                    THEN LogVulnerability(found, "FRONT_RUNNING",
                             Description("Front-running", function_name, ""), "MEDIUM")
                    ELSE found,
          raised |-> FALSE, message |-> "none"]
    ELSE [calls |-> <<>>, found |-> found, raised |-> FALSE, message |-> "none"]

test_front_running(found, target, function_name, outcomes) ==
    IF HasAttr(target, function_name)
    THEN WithCalls(Returns(found),
             [i \in DOMAIN outcomes |->
                 Call(function_name, IF i = 1 THEN VictimArgs ELSE AttackerArgs,
                      outcomes[i], found, found)])
    ELSE WithCalls(Returns(found), NoCalls)

\* ------------------------------------------------------------------------
\* OracleManipulationTester.test_oracle_manipulation
\* ------------------------------------------------------------------------
test_oracle_manipulation(found, target, oracle_function, outcome) ==
    IF HasAttr(target, oracle_function)
    THEN LET after == IF outcome.status = "ok" /\ outcome.value = OracleSentinel
                      THEN LogVulnerability(found, "ORACLE_MANIPULATION",
                               Description("Fixed oracle price", oracle_function, ""),
                               "MEDIUM")
                      ELSE found
         IN WithCalls(Returns(after),
                      <<Call(oracle_function, NoArgs, outcome, found, after)>>)
    ELSE WithCalls(Returns(found), NoCalls)

\* 1000000 * 10**18, in units of 10**18
large_amount == [units_of_10_18 |-> 1000000]

\* ------------------------------------------------------------------------
\* SlippageTester.test_slippage_protection
\* ------------------------------------------------------------------------
\* the probe with the finding logged after the try statement, whatever
\* the call did
test_slippage_protection_LogsAfterTry(found, target, swap_function, outcome) ==
    IF "functions" \in DOMAIN target /\ swap_function \in target.functions
    THEN LET after == LogVulnerability(found, "SLIPPAGE",
                          Description("No slippage protection", swap_function, ""),
                          "MEDIUM")
         IN [calls |-> <<[function |-> swap_function,
                          input |-> [units_of_10_18 |-> 1000000],
                          outcome |-> outcome,
                          logged |-> SubSeq(after, Len(found) + 1, Len(after))]>>,
             found |-> after, raised |-> FALSE, message |-> "none"]
    ELSE [calls |-> <<>>, found |-> found, raised |-> FALSE, message |-> "none"]

test_slippage_protection(found, target, swap_function, outcome) ==
    IF HasAttr(target, swap_function)
    THEN LET after == IF outcome.status = "ok"
                      THEN LogVulnerability(found, "SLIPPAGE",
                               Description("No slippage protection", swap_function, ""),
                               "MEDIUM")
                      ELSE found
         IN WithCalls(Returns(after),
                      <<Call(swap_function, large_amount, outcome, found, after)>>)
    ELSE WithCalls(Returns(found), NoCalls)

\* ------------------------------------------------------------------------
\* FlashLoanTester.test_flash_loan_attack
\* ------------------------------------------------------------------------
test_flash_loan_attack(found, target, flash_loan_function, outcome) ==
    IF HasAttr(target, flash_loan_function)
    THEN LET after == IF outcome.status = "ok"
                      THEN LogVulnerability(found, "FLASH_LOAN",
                               Description("Flash loan vulnerability",
                                           flash_loan_function, ""), "HIGH")
                      ELSE found
         IN WithCalls(Returns(after),
                      <<Call(flash_loan_function, large_amount, outcome, found, after)>>)
    ELSE WithCalls(Returns(found), NoCalls)

\* ------------------------------------------------------------------------
\* SecurityTestSuite.run_all_tests
\* ------------------------------------------------------------------------
\* the configuration key each branch of lines 346-371 tests; front_running
\* has no branch
ConfigKey ==
    [reentrancy |-> "reentrancy_functions", overflow |-> "overflow_functions",
     access_control |-> "restricted_functions", gas_limit |-> "gas_functions",
     oracle |-> "oracle_functions", slippage |-> "swap_functions",
     flash_loan |-> "flash_loan_functions"]
ConfigKeys == {ConfigKey[c] : c \in DOMAIN ConfigKey}

\* a configuration value: a list of entry-point names, or a value that
\* cannot be iterated (None)
ListValue(l) == [list |-> l]
NotAList == [not_a_list |-> TRUE]
ConfigValues == {NotAList} \cup {ListValue(l) : l \in SeqsUpTo(FunctionNames, MaxFuncs)}

\* the configurations: None, or a dict declaring at most MaxKeys keys
Configs ==
    {NoConfig}
    \cup UNION {[K -> ConfigValues] : K \in {S \in SUBSET ConfigKeys : Cardinality(S) <= MaxKeys}}

\* keys a configuration declares
NumDeclared(config) == IF config = NoConfig THEN 0 ELSE Cardinality(DOMAIN config)

\* entry points a configuration lists over the keys in keys
RECURSIVE ListedBy(_, _)
ListedBy(config, keys) ==
    IF keys = {} THEN 0
    ELSE LET key == CHOOSE x \in keys : TRUE IN
         (IF config[key] = NotAList THEN 0 ELSE Len(config[key].list))
           + ListedBy(config, keys \ {key})

NumListed(config) == IF config = NoConfig THEN 0 ELSE ListedBy(config, DOMAIN config)

Category == Registry[idx]

\* the branch of the category evaluates  key in test_config
TestsConfig(c) == c \in DOMAIN ConfigKey
\* ... which raises TypeError when test_config is None
ConfigRaises(c) == TestsConfig(c) /\ test_config = NoConfig
Declared(c) == TestsConfig(c) /\ test_config # NoConfig
                 /\ ConfigKey[c] \in DOMAIN test_config
\* the for statement over the declared value raises TypeError
IterationRaises(c) == Declared(c) /\ test_config[ConfigKey[c]] = NotAList
Funcs(c) == test_config[ConfigKey[c]].list

\* probe calls the branch of category c makes: one per listed entry point,
\* and a single one with the whole list for access_control
NumCalls(c) ==
    IF ~Declared(c) \/ IterationRaises(c) THEN 0
    ELSE IF c = "access_control" THEN 1 ELSE Len(Funcs(c))

\* the outcomes of one probe call of category c, one for each way the
\* target may answer the calls the probe makes
ProbeResults(c, found, k) ==
    CASE c = "reentrancy" ->
           {test_reentrancy(found, contract, Funcs(c)[k], b) : b \in BOOLEAN}
      [] c = "overflow" ->
           {test_overflow(found, contract, Funcs(c)[k], o)
              : o \in OverflowOutcomes}
      [] c = "access_control" ->
           IF IterationRaises(c) THEN {WithCalls(Raises(found, "TypeError"), NoCalls)}
           ELSE {test_access_control(found, contract, Funcs(c), o)
                   : o \in [DOMAIN Funcs(c) -> PlainOutcomes]}
      [] c = "gas_limit" ->
           {test_gas_limit(found, contract, Funcs(c)[k], o)
              : o \in GasOutcomeSeqs}
      [] c = "oracle" ->
           {test_oracle_manipulation(found, contract, Funcs(c)[k], o)
              : o \in OracleOutcomes}
      [] c = "slippage" ->
           {test_slippage_protection(found, contract, Funcs(c)[k], o)
              : o \in PlainOutcomes}
      [] c = "flash_loan" ->
           {test_flash_loan_attack(found, contract, Funcs(c)[k], o)
              : o \in PlainOutcomes}

\* json.dump(results, f): the map by value, each report with the findings
\* its list holds at that time
Dumped(map) ==
    [c \in DOMAIN map |->
        IF "error" \in DOMAIN map[c] THEN map[c]
        ELSE [total_vulnerabilities |-> map[c].total_vulnerabilities,
              findings |-> Findings(map[c]),
              severity_counts |-> map[c].severity_counts]]

\* the call with a new set of testers made for it
RunAllTestsCall_FreshTesters(limit, keep) ==
    /\ idx = 0
    /\ runs < limit
    /\ \E target \in Contracts, config \in Configs :
         /\ declared + NumDeclared(config) <= MaxKeys
         /\ listed + NumListed(config) <= MaxFuncs
         /\ contract' = target
         /\ test_config' = config
         /\ declared' = declared + NumDeclared(config)
         /\ listed' = listed + NumListed(config)
    /\ trace' = NoTrace
    /\ results' = NoResults
    /\ idx' = 1
    /\ fi' = 1
    /\ runs' = runs + 1
    /\ returned' = NoResults
    /\ text_report' = NoTextReport
    /\ previous' = IF keep THEN Dumped(returned) ELSE previous
    /\ testers' = [c \in Categories |-> <<>>]
    /\ UNCHANGED logs
    /\ UNCHANGED mainVars

\* the client calls run_all_tests(contract, test_config); it lets go of the
\* map and of the summary of the call before.  The keys and entry points of
\* the configurations of all calls on the suite stay within MaxKeys, MaxFuncs;
\* limit bounds the calls, keep says whether the client kept a copy of the
\* map of the call before.
RunAllTestsCall(limit, keep) ==
    /\ idx = 0
    /\ runs < limit
    /\ \E target \in Contracts, config \in Configs :
         /\ declared + NumDeclared(config) <= MaxKeys
         /\ listed + NumListed(config) <= MaxFuncs
         /\ contract' = target
         /\ test_config' = config
         /\ declared' = declared + NumDeclared(config)
         /\ listed' = listed + NumListed(config)
    /\ trace' = NoTrace
    /\ results' = NoResults
    /\ idx' = 1
    /\ fi' = 1
    /\ runs' = runs + 1
    /\ returned' = NoResults
    /\ text_report' = NoTextReport
    /\ previous' = IF keep THEN Dumped(returned) ELSE previous
    /\ UNCHANGED <<testers, logs>>
    /\ UNCHANGED mainVars

run_all_tests_call == RunAllTestsCall(MaxRuns, FALSE)

\* a client that runs the suite once more, on any target and with any
\* configuration, and keeps what json.dump wrote of the map of the run
\* before (test_security_comprehensive.py:51-52)
run_all_tests_again == RunAllTestsCall(MaxRuns + 1, TRUE)

\* probe_call with the try statement around the loop instead of inside it:
\* an exception that leaves a probe ends the run
probe_call_AbortsRun ==
    /\ idx \in DOMAIN Registry
    /\ ~ConfigRaises(Category)
    /\ fi <= NumCalls(Category)
    /\ \E r \in ProbeResults(Category, testers[Category], fi) :
         /\ testers' = [testers EXCEPT ![Category] = r.found]
         /\ trace' = r.calls
         /\ IF r.raised
            THEN /\ results' = (Category :> [error |-> r.message]) @@ results
                 /\ idx' = Len(Registry) + 1
                 /\ fi' = 1
            ELSE /\ fi' = fi + 1
                 /\ UNCHANGED <<results, idx>>
    /\ UNCHANGED <<contract, test_config, returned, text_report, runs, logs>>
    /\ UNCHANGED <<declared, listed, previous>>
    /\ UNCHANGED mainVars

\* lines 346-371: one probe call of the category under test; an exception
\* that leaves the probe ends the category with an error report (375-377)
probe_call ==
    /\ idx \in DOMAIN Registry
    /\ ~ConfigRaises(Category)
    /\ fi <= NumCalls(Category)
    /\ \E r \in ProbeResults(Category, testers[Category], fi) :
         /\ testers' = [testers EXCEPT ![Category] = r.found]
         /\ trace' = r.calls
         /\ IF r.raised
            THEN /\ results' = (Category :> [error |-> r.message]) @@ results
                 /\ idx' = idx + 1
                 /\ fi' = 1
            ELSE /\ fi' = fi + 1
                 /\ UNCHANGED <<results, idx>>
    /\ UNCHANGED <<contract, test_config, returned, text_report, runs, logs>>
    /\ UNCHANGED <<declared, listed, previous>>
    /\ UNCHANGED mainVars

\* category_report with line 373 inside the branches: a category the
\* configuration does not declare gets no entry
category_report_SkipsUndeclared ==
    /\ idx \in DOMAIN Registry
    /\ ConfigRaises(Category) \/ fi > NumCalls(Category)
    /\ LET got == GetVulnerabilityReport(Category) IN
       results' = IF ~ConfigRaises(Category) /\ ~Declared(Category) THEN results
                  ELSE (Category :>
                          IF ConfigRaises(Category) \/ IterationRaises(Category)
                          THEN [error |-> "TypeError"]
                          ELSE IF got.raised THEN [error |-> got.message]
                          ELSE got.report) @@ results
    /\ idx' = idx + 1
    /\ fi' = 1
    /\ UNCHANGED <<testers, contract, test_config, returned, text_report, runs, logs>>
    /\ UNCHANGED <<declared, listed, previous>>
    /\ trace' = NoTrace
    /\ UNCHANGED mainVars

\* category_report with line 373 after the try statement: the KeyError of
\* get_vulnerability_report leaves run_all_tests, which returns no map
category_report_Propagates ==
    /\ idx \in DOMAIN Registry
    /\ ConfigRaises(Category) \/ fi > NumCalls(Category)
    /\ LET got == GetVulnerabilityReport(Category) IN
       IF ~ConfigRaises(Category) /\ ~IterationRaises(Category) /\ got.raised
       THEN /\ results' = NoResults
            /\ idx' = 0
            /\ contract' = NoContract
            /\ test_config' = NoConfig
       ELSE /\ results' = (Category :>
                             IF ConfigRaises(Category) \/ IterationRaises(Category)
                             THEN [error |-> "TypeError"]
                             ELSE got.report) @@ results
            /\ idx' = idx + 1
            /\ UNCHANGED <<contract, test_config>>
    /\ fi' = 1
    /\ UNCHANGED <<testers, returned, text_report, runs, logs>>
    /\ UNCHANGED <<declared, listed, previous>>
    /\ trace' = NoTrace
    /\ UNCHANGED mainVars

\* the category is through: line 373, or lines 375-377 when the test of
\* the configuration, the for statement or get_vulnerability_report raised
category_report ==
    /\ idx \in DOMAIN Registry
    /\ ConfigRaises(Category) \/ fi > NumCalls(Category)
    /\ LET got == GetVulnerabilityReport(Category) IN
       results' = (Category :>
                     IF ConfigRaises(Category) \/ IterationRaises(Category)
                     THEN [error |-> "TypeError"]
                     ELSE IF got.raised THEN [error |-> got.message]
                     ELSE got.report) @@ results
    /\ idx' = idx + 1
    /\ fi' = 1
    /\ UNCHANGED <<testers, contract, test_config, returned, text_report, runs, logs>>
    /\ UNCHANGED <<declared, listed, previous>>
    /\ trace' = NoTrace
    /\ UNCHANGED mainVars

\* line 379: the map goes to the caller and the frame of the call is gone
run_all_tests_return ==
    /\ idx = Len(Registry) + 1
    /\ returned' = results
    /\ idx' = 0
    /\ contract' = NoContract
    /\ test_config' = NoConfig
    /\ results' = NoResults
    /\ UNCHANGED <<testers, fi, text_report, runs, logs>>
    /\ UNCHANGED <<declared, listed, previous>>
    /\ trace' = NoTrace
    /\ UNCHANGED mainVars

\* ------------------------------------------------------------------------
\* a client logs a finding on a tester of the suite (log_vulnerability is
\* public and takes any severity string): the call of
\* test_reentrancy_specific.py:51, with a severity of the data model or one
\* outside it
\* ------------------------------------------------------------------------
LoggedSeverities == {"HIGH", "CRITICAL"}
LoggedTesters == {"reentrancy"}

log_vulnerability ==
    /\ idx = 0
    /\ logs < MaxLogs
    /\ \E c \in LoggedTesters, severity \in LoggedSeverities :
         testers' = [testers EXCEPT ![c] =
                        LogVulnerability(@, "MANUAL",
                            Description("logged by the caller", "", ""), severity)]
    /\ logs' = logs + 1
    /\ text_report' = NoTextReport
    /\ UNCHANGED <<contract, test_config, results, idx, fi, returned, runs>>
    /\ UNCHANGED <<declared, listed, previous>>
    /\ trace' = NoTrace
    /\ UNCHANGED mainVars

\* ------------------------------------------------------------------------
\* a client calls the front-running probe of the suite itself, on any
\* target and entry point; run_all_tests has no branch that does
\* ------------------------------------------------------------------------
front_running_call ==
    /\ idx = 0
    /\ \E target \in Contracts, function_name \in FunctionNames :
       \E o \in IF HasAttr(target, function_name) THEN FrontRunningOutcomes ELSE {<<>>} :
         LET r == test_front_running(testers["front_running"], target, function_name, o)
         IN  /\ testers' = [testers EXCEPT !["front_running"] = r.found]
             /\ trace' = r.calls
    /\ UNCHANGED <<contract, test_config, results, idx, fi, returned, text_report, runs,
                   logs>>
    /\ UNCHANGED <<declared, listed, previous>>
    /\ UNCHANGED mainVars

\* ------------------------------------------------------------------------
\* SecurityTestSuite.generate_report on the map the last run returned
\* ------------------------------------------------------------------------
RECURSIVE TallyFindings(_, _)
TallyFindings(acc, vulns) ==
    IF vulns = <<>> \/ acc.raised THEN acc
    ELSE IF Head(vulns).severity \notin DOMAIN acc.severity_counts
         THEN [acc EXCEPT !.raised = TRUE]
         ELSE TallyFindings([acc EXCEPT !.severity_counts[Head(vulns).severity] = @ + 1],
                            Tail(vulns))

RECURSIVE TallyResults(_, _, _)
TallyResults(acc, res, i) ==
    IF i > Len(Registry) \/ acc.raised THEN acc
    ELSE IF Registry[i] \notin DOMAIN res \/ "error" \in DOMAIN res[Registry[i]]
         THEN TallyResults(acc, res, i + 1)
         ELSE LET vulns == Findings(res[Registry[i]]) IN
              TallyResults(
                  TallyFindings([acc EXCEPT !.total_vulnerabilities = @ + Len(vulns)],
                                vulns),
                  res, i + 1)

GenerateReport(res) ==
    TallyResults([total_vulnerabilities |-> 0,
                  severity_counts |-> [HIGH |-> 0, MEDIUM |-> 0, LOW |-> 0],
                  raised |-> FALSE], res, 1)

generate_report ==
    /\ idx = 0
    /\ runs > 0
    /\ text_report = NoTextReport
    /\ LET out == GenerateReport(returned) IN
       text_report' = [called |-> TRUE, raised |-> out.raised,
                       total_vulnerabilities |-> out.total_vulnerabilities,
                       severity_counts |-> out.severity_counts]
    /\ UNCHANGED <<testers, contract, test_config, results, idx, fi, returned, runs, logs>>
    /\ UNCHANGED <<declared, listed, previous>>
    /\ trace' = NoTrace
    /\ UNCHANGED mainVars

InitSuite == MainIdle /\ FreshSuite

NextSuite ==
    \/ run_all_tests_call
    \/ probe_call
    \/ category_report
    \/ run_all_tests_return
    \/ log_vulnerability
    \/ generate_report

SpecSuite == InitSuite /\ [][NextSuite]_vars

\* runs of the suite one after the other, one more than MaxRuns, by a
\* client that also calls the front-running probe between the runs
NextRuns ==
    \/ run_all_tests_again
    \/ front_running_call
    \/ probe_call
    \/ category_report
    \/ run_all_tests_return

SpecRuns == InitSuite /\ [][NextRuns]_vars

\* ========================================================================
\* Properties of the aggregation run
\* ========================================================================
Done == pc = "done"

\* the test-results files the run read, in listed order
FileWasRead(test_file) ==
    LET file == reports_dir[report_path[test_file]] IN file.exists /\ file.parsable

\* a record of a findings list that carries a severity of the data model
IsFinding(v) == IsMapping(v) /\ Get(v, "severity", "LOW") \in Severities

AsFinding(source, v) ==
    [test_file |-> source,
     type |-> Get(v, "type", "Unknown"),
     description |-> Get(v, "description", "No description"),
     severity |-> Get(v, "severity", "LOW")]

RECURSIVE FindingsOfList(_, _)
FindingsOfList(source, vulns) ==
    IF vulns = <<>> THEN <<>>
    ELSE (IF IsFinding(Head(vulns)) THEN <<AsFinding(source, Head(vulns))>> ELSE <<>>)
         \o FindingsOfList(source, Tail(vulns))

RECURSIVE FindingsOfCategories(_, _)
FindingsOfCategories(source, cats) ==
    IF cats = <<>> THEN <<>>
    ELSE (IF "vulnerabilities" \in DOMAIN Head(cats) /\ "error" \notin DOMAIN Head(cats)
          THEN FindingsOfList(source, Head(cats).vulnerabilities) ELSE <<>>)
         \o FindingsOfCategories(source, Tail(cats))

RECURSIVE FindingsOfFiles(_)
FindingsOfFiles(files) ==
    IF files = <<>> THEN <<>>
    ELSE (IF FileWasRead(Head(files))
          THEN FindingsOfCategories(Head(files), reports_dir[report_path[Head(files)]].json)
          ELSE <<>>)
         \o FindingsOfFiles(Tail(files))

\* the detector records the run read
ExternalRecords ==
    LET file == reports_dir[slither_path] IN
    IF file.exists /\ file.parsable THEN file.json.results.detectors ELSE <<>>

ExternalSeverity(d) ==
    IF "impact" \in DOMAIN d /\ d.impact = ImpactCritical THEN "HIGH" ELSE "MEDIUM"

RECURSIVE ExternalFindings(_)
ExternalFindings(ds) ==
    IF ds = <<>> THEN <<>>
    ELSE <<[test_file |-> "slither", type |-> Head(ds).check,
            description |-> Head(ds).description,
            severity |-> ExternalSeverity(Head(ds))]>>
         \o ExternalFindings(Tail(ds))

NumOfSeverity(findings, s) ==
    Cardinality({i \in DOMAIN findings : findings[i].severity = s})

\* C1: in every unified report, summary.total_vulnerabilities equals the
\* length of the flattened vulnerabilities list and equals the sum of
\* summary.severity_counts over HIGH, MEDIUM and LOW, whatever the input
\* files hold.
C1_TotalsAgree ==
    Done =>
      /\ report.summary.total_vulnerabilities = Len(report.vulnerabilities)
      /\ report.summary.total_vulnerabilities
           = report.summary.severity_counts["HIGH"]
             + report.summary.severity_counts["MEDIUM"]
             + report.summary.severity_counts["LOW"]

\* C2: the risk level of a unified report is HIGH iff severity_counts.HIGH > 0,
\* MEDIUM iff severity_counts.HIGH = 0 and severity_counts.MEDIUM > 0, and LOW
\* otherwise (zero findings included).
C2_RiskLevel ==
    Done =>
      LET counts == report.summary.severity_counts
          risk == report.summary.risk_level
      IN  /\ risk \in Severities
          /\ (risk = "HIGH") <=> (counts["HIGH"] > 0)
          /\ (risk = "MEDIUM") <=> (counts["HIGH"] = 0 /\ counts["MEDIUM"] > 0)
          /\ (risk = "LOW") <=> (counts["HIGH"] = 0 /\ counts["MEDIUM"] = 0)

\* a finished report with MEDIUM findings and no HIGH finding
C2_Witness ==
    /\ Done
    /\ report.summary.severity_counts["HIGH"] = 0
    /\ report.summary.severity_counts["MEDIUM"] > 0
    /\ report.summary.risk_level = "MEDIUM"

\* C3: the flattened vulnerabilities list is the order-preserving
\* concatenation of the findings of every category report of every
\* test-results file that was read, followed by the external findings, each
\* with its type, description and severity; no finding is lost.
C3_Concatenation ==
    Done =>
      report.vulnerabilities
        = FindingsOfFiles(test_files) \o ExternalFindings(ExternalRecords)

\* C4: merging a non-empty sequence of external detector records adds
\* exactly one finding per record and leaves every finding collected before
\* the merge at its position, unchanged.
C4_MergeAdditive ==
    [][(pc = "slither" /\ pc' = "summary" /\ ExternalRecords # <<>>)
       => /\ Len(report'.vulnerabilities)
               = Len(report.vulnerabilities) + Len(ExternalRecords)
          /\ SubSeq(report'.vulnerabilities, 1, Len(report.vulnerabilities))
               = report.vulnerabilities]_vars

\* the merge has added an external finding behind a probe finding
C4_Witness ==
    /\ pc = "summary"
    /\ Len(report.vulnerabilities) >= 2
    /\ report.vulnerabilities[1].test_file # "slither"
    /\ report.vulnerabilities[Len(report.vulnerabilities)].test_file = "slither"

\* C5: for each severity s, severity_counts[s] is the number of findings of
\* severity s over all category reports that are not error reports, plus the
\* external findings of severity s.
C5_CountsPerSeverity ==
    Done =>
      \A s \in Severities :
        report.summary.severity_counts[s]
          = NumOfSeverity(FindingsOfFiles(test_files), s)
            + NumOfSeverity(ExternalFindings(ExternalRecords), s)

\* C6: when the external tool is not found, exits with an error or times
\* out, the unified report of that run holds no external finding.
C6_NoExternalOnToolFailure ==
    (Done /\ scan_outcome \in {"not_found", "error", "timeout"})
      => \A i \in DOMAIN report.vulnerabilities :
            report.vulnerabilities[i].test_file # "slither"

\* ========================================================================
\* Properties of the suite
\* ========================================================================
\* run_all_tests has gone through the registry and is about to return
RunComplete == idx = Len(Registry) + 1
\* run_all_tests is at the category Registry[idx]
AtCategory == idx \in DOMAIN Registry

IsErrorReport(rep) == "error" \in DOMAIN rep

\* the configuration is a dict that has the key of category c
ConfigDeclares(c) ==
    /\ "is_none" \notin DOMAIN test_config
    /\ c # "front_running"
    /\ ConfigKey[c] \in DOMAIN test_config

SumOfCounts(counts) == counts["HIGH"] + counts["MEDIUM"] + counts["LOW"]

HasUnknownSeverity(found) == \E i \in DOMAIN found : found[i].severity \notin Severities

C8_ErrorIsolated ==
    [][/\ idx' >= 1 => DOMAIN results' = {Registry[i] : i \in 1..(idx' - 1)}
       /\ AtCategory
            => /\ \A c \in DOMAIN results : results'[c] = results[c]
               /\ idx' \in {idx, idx + 1}
               /\ (idx' = idx + 1 /\ IsErrorReport(results'[Registry[idx]]))
                    => \/ Registry[idx] \in {"reentrancy", "access_control"}
                       \/ "is_none" \in DOMAIN test_config
                       \/ /\ ConfigDeclares(Registry[idx])
                          /\ "not_a_list" \in DOMAIN test_config[ConfigKey[Registry[idx]]]
                       \/ HasUnknownSeverity(testers[Registry[idx]])]_vars

\* the access-control probe raised: its category holds an error report, the
\* categories before it and after it hold reports
C8_Witness ==
    /\ RunComplete
    /\ IsErrorReport(results["access_control"])
    /\ \A c \in Categories \ {"access_control"} : ~IsErrorReport(results[c])

\* C9: when get_vulnerability_report returns a report, the values of its
\* severity_counts sum to the number of findings of the report, which is
\* its total_vulnerabilities.
C9_CountsSumToFindings ==
    [][(AtCategory /\ idx' = idx + 1 /\ ~IsErrorReport(results'[Registry[idx]]))
         => LET rep == results'[Registry[idx]] IN
            /\ rep.total_vulnerabilities = Len(testers'[rep.vulnerabilities])
            /\ SumOfCounts(rep.severity_counts) = rep.total_vulnerabilities]_vars

\* a report with a finding has been returned for some category
C9_Witness ==
    /\ idx >= 2
    /\ \E c \in DOMAIN results :
         /\ ~IsErrorReport(results[c])
         /\ results[c].total_vulnerabilities >= 1

\* C10: a report that run_all_tests has returned keeps the findings list,
\* the counts and the total it was returned with, so the length of its
\* findings list stays equal to its total_vulnerabilities.
C10_ReturnedReportStable ==
    \A c \in DOMAIN returned :
        ~IsErrorReport(returned[c])
          => /\ Len(Findings(returned[c])) = returned[c].total_vulnerabilities
             /\ SumOfCounts(returned[c].severity_counts)
                  = returned[c].total_vulnerabilities

\* ========================================================================
\* Properties of the probes
\* ========================================================================
\* the step is a probe call of category c
ProbeStep(c) ==
    /\ AtCategory /\ Registry[idx] = c
    /\ ~ConfigRaises(c) /\ fi <= NumCalls(c)
    /\ fi' # fi \/ idx' # idx

\* the step ends category c with line 373 or lines 375-377
ReportStep(c) ==
    /\ AtCategory /\ Registry[idx] = c
    /\ ConfigRaises(c) \/ fi > NumCalls(c)
    /\ idx' = idx + 1

\* the lists of findings the calls of a trace logged, one after the other
RECURSIVE LoggedBy(_)
LoggedBy(calls) ==
    IF calls = <<>> THEN <<>> ELSE Head(calls).logged \o LoggedBy(Tail(calls))

Completed(call) == call.outcome.status = "ok"

\* the entry points of a list that the target of the run has, in order
OnTarget(functions) == SelectSeq(functions, LAMBDA f : HasAttr(contract, f))

\* C11: the access-control probe calls every configured restricted entry
\* point the target has, in configured order, as accounts[1]; a call that
\* completes logs exactly one finding of type ACCESS_CONTROL and severity
\* HIGH, a call that raises logs none, and nothing else is added to the
\* tester's list.  The report of the category then counts every finding of
\* the list, so a run with a completing call reports more than zero.
C11_AccessControlProbe ==
    [][/\ (ProbeStep("access_control") /\ ~IterationRaises("access_control"))
            => LET called == OnTarget(Funcs("access_control")) IN
               /\ Len(trace') = Len(called)
               /\ \A i \in DOMAIN trace' :
                    /\ trace'[i].function = called[i]
                    /\ trace'[i].input = [from |-> "accounts[1]"]
                    /\ IF Completed(trace'[i])
                       THEN /\ Len(trace'[i].logged) = 1
                            /\ trace'[i].logged[1].type = "ACCESS_CONTROL"
                            /\ trace'[i].logged[1].severity = "HIGH"
                       ELSE trace'[i].logged = <<>>
               /\ testers'["access_control"]
                    = testers["access_control"] \o LoggedBy(trace')
       /\ (ReportStep("access_control") /\ ~IsErrorReport(results'["access_control"]))
            => results'["access_control"].total_vulnerabilities
                 = Len(testers["access_control"])]_vars

\* a fresh tester, one restricted entry point the unprivileged caller can
\* invoke: the list holds exactly one finding
C11_Witness ==
    /\ AtCategory /\ Registry[idx] = "access_control"
    /\ Len(trace) = 1 /\ Completed(trace[1])
    /\ trace[1].input = FromUnauthorized
    /\ Len(testers["access_control"]) = 1
    /\ testers["access_control"][1].type = "ACCESS_CONTROL"

\* the step is a probe call of category c on an entry point the target has
ProbeStepOn(c) == ProbeStep(c) /\ HasAttr(contract, Funcs(c)[fi])

Reverted(call) ==
    /\ call.outcome.status = "raised"
    /\ SubSeq(call.outcome.message, 1, 6) = <<"r", "e", "v", "e", "r", "t">>

\* C12: on an entry point the target has, the integer-boundary probe makes
\* five calls, with max, max-1, max+1, 0 and -1 in that order, whatever
\* the calls before answered.  The call of an input logs one finding of
\* type INTEGER_OVERFLOW and severity HIGH if the input is max+1 or -1 and
\* the call completes, and nothing otherwise; so one probe call adds at
\* most two findings to the tester's list.
C12_BoundaryProbe ==
    [][ProbeStepOn("overflow")
         => /\ Len(trace') = 5
            /\ [i \in 1..5 |-> trace'[i].input]
                 = <<[base |-> "max_uint256", offset |-> 0],
                     [base |-> "max_uint256", offset |-> -1],
                     [base |-> "max_uint256", offset |-> 1],
                     [base |-> "zero", offset |-> 0],
                     [base |-> "zero", offset |-> -1]>>
            /\ \A i \in 1..5 :
                 /\ trace'[i].function = Funcs("overflow")[fi]
                 /\ IF i \in {3, 5} /\ Completed(trace'[i])
                    THEN /\ Len(trace'[i].logged) = 1
                         /\ trace'[i].logged[1].type = "INTEGER_OVERFLOW"
                         /\ trace'[i].logged[1].severity = "HIGH"
                    ELSE trace'[i].logged = <<>>
            /\ testers'["overflow"] = testers["overflow"] \o LoggedBy(trace')
            /\ Len(testers'["overflow"]) <= Len(testers["overflow"]) + 2]_vars

\* the call with max+1 reverted; the probe went on and the call with -1
\* completed, which gave the only finding of the probe call
C12_Witness ==
    /\ AtCategory /\ Registry[idx] = "overflow"
    /\ Len(trace) = 5
    /\ Reverted(trace[3]) /\ trace[3].logged = <<>>
    /\ Completed(trace[5]) /\ Len(trace[5].logged) = 1
    /\ Len(LoggedBy(trace)) = 1

\* C13: a call on the target that reverts leaves the tester's list as it
\* was: in every probe, the handling of a reverted call logs no finding.
C13_RevertNeverLogged ==
    \A i \in DOMAIN trace : Reverted(trace[i]) => trace[i].logged = <<>>

\* the call failed, and neither with a revert nor by running out of gas
FailedOtherwise(call) ==
    /\ call.outcome.status = "raised"
    /\ ~Reverted(call)
    /\ ~Contains(out_of_gas, lower(call.outcome.message))

\* C14: when a call a probe makes fails with something that is not a
\* revert, the failure leaves the probe: the category ends at that probe
\* call and its report is {error: message}.
C14_FailureSurfaced ==
    [][(AtCategory /\ \E i \in DOMAIN trace' : FailedOtherwise(trace'[i]))
         => /\ idx' = idx + 1
            /\ IsErrorReport(results'[Registry[idx]])]_vars

\* the target of the run is a contract
RealTarget == "functions" \in DOMAIN contract
\* the target of the run has no entry point of that name
Lacks(function_name) == ~RealTarget \/ function_name \notin contract.functions

\* C15: a probe call for a configured entry point the target does not have
\* makes no call of that name, adds nothing to the tester's list and
\* raises nothing, so the run goes on to the next entry point of the
\* category; the access-control probe, which gets the whole list, passes
\* over the names the target lacks.  (The reentrancy probe reads the
\* target's address and balance first, whatever the entry point: its case
\* is a contract whose balance can be read.)
C15_AbsentEntryPointSkipped ==
    [][/\ \A c \in DOMAIN ConfigKey \ {"access_control"} :
            (/\ ProbeStep(c)
             /\ Lacks(Funcs(c)[fi])
             /\ c = "reentrancy"
                  => RealTarget /\ \A i \in DOMAIN trace' : Completed(trace'[i]))
              => /\ \A i \in DOMAIN trace' : trace'[i].function # Funcs(c)[fi]
                 /\ LoggedBy(trace') = <<>>
                 /\ testers' = testers
                 /\ idx' = idx /\ fi' = fi + 1
                 /\ results' = results
       /\ (ProbeStep("access_control") /\ ~IterationRaises("access_control"))
            => /\ \A i \in DOMAIN trace' : ~Lacks(trace'[i].function)
               /\ idx' = idx
               /\ (\A k \in DOMAIN Funcs("access_control") :
                      Lacks(Funcs("access_control")[k]))
                    => testers' = testers /\ trace' = <<>>]_vars

\* a run on a contract was configured, for one of the probes, with entry
\* points the contract lacks: it is complete and the report of the
\* category is a normal report without a finding
C15_Witness ==
    /\ RunComplete /\ RealTarget
    /\ \E c \in DOMAIN ConfigKey :
         /\ ConfigDeclares(c)
         /\ "list" \in DOMAIN test_config[ConfigKey[c]]
         /\ Len(test_config[ConfigKey[c]].list) >= 1
         /\ \A k \in DOMAIN test_config[ConfigKey[c]].list :
              Lacks(test_config[ConfigKey[c]].list[k])
         /\ ~IsErrorReport(results[c])
         /\ results[c].total_vulnerabilities = 0

\* ========================================================================
\* Properties of the aggregation run: malformed entries, external records
\* ========================================================================
\* a category entry whose findings list holds findings only
WellFormedEntry(entry) ==
    /\ "vulnerabilities" \in DOMAIN entry
    /\ \A i \in DOMAIN entry.vulnerabilities : IsFinding(entry.vulnerabilities[i])

\* the findings of the well-formed category entries of a file
RECURSIVE FindingsOfWellFormed(_, _)
FindingsOfWellFormed(source, cats) ==
    IF cats = <<>> THEN <<>>
    ELSE (IF WellFormedEntry(Head(cats))
          THEN FindingsOfList(source, Head(cats).vulnerabilities) ELSE <<>>)
         \o FindingsOfWellFormed(source, Tail(cats))

Occurrences(findings, x) == Cardinality({i \in DOMAIN findings : findings[i] = x})

\* C16: whatever malformed category entries the test-results files hold,
\* the unified report lists every finding of every well-formed category
\* entry of every file that was read, and its counts include them.
C16_WellFormedCategoriesKept ==
    Done =>
      \A k \in DOMAIN test_files :
         FileWasRead(test_files[k]) =>
           LET kept == FindingsOfWellFormed(test_files[k],
                           reports_dir[report_path[test_files[k]]].json)
           IN /\ \A i \in DOMAIN kept :
                    Occurrences(report.vulnerabilities, kept[i]) >= Occurrences(kept, kept[i])
              /\ \A sev \in Severities :
                    report.summary.severity_counts[sev] >= NumOfSeverity(kept, sev)

\* the entries of the unified report that come from the external tool
FromSlither == SelectSeq(report.vulnerabilities, LAMBDA v : v.test_file = "slither")

\* the impact of a detector record says critical, in whatever case
SaysCritical(d) ==
    /\ "impact" \in DOMAIN d
    /\ \E i \in 1..Len(d.impact) :
         /\ i + 7 <= Len(d.impact)
         /\ d.impact[i] \in {"c", "C"} /\ d.impact[i + 1] \in {"r", "R"}
         /\ d.impact[i + 2] \in {"i", "I"} /\ d.impact[i + 3] \in {"t", "T"}
         /\ d.impact[i + 4] \in {"i", "I"} /\ d.impact[i + 5] \in {"c", "C"}
         /\ d.impact[i + 6] \in {"a", "A"} /\ d.impact[i + 7] \in {"l", "L"}

\* C17: the unified report has one finding for each detector record that
\* was read, in the order of the records; its severity is HIGH if the
\* record's impact contains "critical" in any case and MEDIUM otherwise,
\* so MEDIUM for a record without impact and never LOW.
C17_ExternalSeverity ==
    Done =>
      /\ Len(FromSlither) = Len(ExternalRecords)
      /\ \A i \in DOMAIN FromSlither :
           /\ FromSlither[i].type = ExternalRecords[i].check
           /\ FromSlither[i].severity
                = IF SaysCritical(ExternalRecords[i]) THEN "HIGH" ELSE "MEDIUM"
           /\ FromSlither[i].severity # "LOW"
           /\ "impact" \notin DOMAIN ExternalRecords[i]
                => FromSlither[i].severity = "MEDIUM"

\* the detector file held a record of impact Critical and a record without
\* impact: the report lists a HIGH and a MEDIUM finding for them
C17_Witness ==
    /\ Done
    /\ Len(ExternalRecords) = 2
    /\ SaysCritical(ExternalRecords[1]) /\ "impact" \notin DOMAIN ExternalRecords[2]
    /\ Len(FromSlither) = 2
    /\ FromSlither[1].severity = "HIGH" /\ FromSlither[2].severity = "MEDIUM"

\* ========================================================================
\* Properties of the artifacts and of the exit status
\* ========================================================================
\* the process of main() has ended
HasExited == pc = "exited"

\* C18: when the process of main() ends after a unified report of risk
\* level HIGH, its exit status is not zero.
C18_ExitStatusReflectsRisk ==
    (HasExited /\ report.summary.risk_level = "HIGH") => exit_status.status # 0

\* C19: the JSON report is written before the narrative; a failure to
\* write the narrative leaves the JSON report in place; and a failure to
\* write the JSON report ends the work on the JSON report only, so the
\* narrative is still produced before the process ends.
C19_ArtifactFailureIsLocal ==
    /\ markdown # NotWritten => json_report.status = "written"
    /\ (HasExited /\ markdown = WriteFailed)
         => json_report = Written(report)
    /\ (HasExited /\ json_report = WriteFailed)
         => markdown.status = "written"

\* the headings the narrative may have, in the order HIGH, MEDIUM, LOW
SeverityHeadings ==
    <<[severity |-> "HIGH", heading |-> "### High Severity Vulnerabilities"],
      [severity |-> "MEDIUM", heading |-> "### Medium Severity Vulnerabilities"],
      [severity |-> "LOW", heading |-> "### Low Severity Vulnerabilities"]>>

\* the position of a heading in that order, 0 for any other text
Rank(heading) ==
    IF \E k \in DOMAIN SeverityHeadings : SeverityHeadings[k].heading = heading
    THEN CHOOSE k \in DOMAIN SeverityHeadings : SeverityHeadings[k].heading = heading
    ELSE 0

\* the findings of the unified report that have severity sev, in order,
\* as the narrative lists a finding
ListedOf(sev) ==
    LET of == SelectSeq(report.vulnerabilities, LAMBDA v : v.severity = sev) IN
    [i \in DOMAIN of |->
        [type |-> of[i].type, description |-> of[i].description,
         test_file |-> of[i].test_file]]

\* C20: the narrative that was written has at most one group for each of
\* HIGH, MEDIUM and LOW, in that order; the group of a severity lists the
\* findings of that severity of the unified report, each once and in the
\* order of the unified report; a severity without finding has no group,
\* and the groups together list as many findings as the unified report has.
C20_NarrativeGroups ==
    markdown.status = "written" =>
      LET groups == markdown.content.groups IN
      /\ \A g \in DOMAIN groups : Rank(groups[g].heading) # 0
      /\ \A g, h \in DOMAIN groups :
           g < h => Rank(groups[g].heading) < Rank(groups[h].heading)
      /\ \A k \in DOMAIN SeverityHeadings :
           LET listed_k == ListedOf(SeverityHeadings[k].severity) IN
           IF listed_k = <<>>
           THEN \A g \in DOMAIN groups : Rank(groups[g].heading) # k
           ELSE \E g \in DOMAIN groups :
                  /\ Rank(groups[g].heading) = k
                  /\ groups[g].items = listed_k
      /\ SumSeq([g \in DOMAIN groups |-> Len(groups[g].items)])
           = Len(report.vulnerabilities)

\* the unified report lists a MEDIUM finding before a HIGH finding and no
\* LOW finding: the narrative has the HIGH group, then the MEDIUM group
C20_Witness ==
    /\ markdown.status = "written"
    /\ Len(report.vulnerabilities) = 2
    /\ report.vulnerabilities[1].severity = "MEDIUM"
    /\ report.vulnerabilities[2].severity = "HIGH"
    /\ Len(markdown.content.groups) = 2
    /\ markdown.content.groups[1].heading = "### High Severity Vulnerabilities"
    /\ markdown.content.groups[2].heading = "### Medium Severity Vulnerabilities"

\* ========================================================================
\* Properties of the coverage summary and of the files of the run
\* ========================================================================
\* C21: the coverage summary of the narrative has, for every category
\* that has a report in test_results of the unified report, an entry that
\* names the category and gives the number of its findings.
C21_CoveragePerCategory ==
    markdown.status = "written" =>
      \A tf \in DOMAIN report.test_results :
        \A i \in DOMAIN report.test_results[tf] :
           "vulnerabilities" \in DOMAIN report.test_results[tf][i]
             => \E k \in DOMAIN markdown.content.coverage :
                  /\ markdown.content.coverage[k].heading = KeyOf(report.test_results[tf], i)
                  /\ markdown.content.coverage[k].found
                       = <<Len(report.test_results[tf][i].vulnerabilities)>>

\* ========================================================================
\* Properties of the probes: reentrancy, gas, slippage and flash loan
\* ========================================================================
\* C22: a call of the reentrancy probe on a contract whose balance can be
\* read invokes the configured entry point after it read the balance.
C22_ReentrancyProbeInvokes ==
    [][(/\ ProbeStep("reentrancy")
        /\ RealTarget
        /\ \A i \in DOMAIN trace' : Completed(trace'[i]))
         => /\ Len(trace') >= 2
            /\ trace'[1].function = "balance"
            /\ \E i \in DOMAIN trace' :
                 trace'[i].function = Funcs("reentrancy")[fi]]_vars

\* the call failed by running out of gas: not a revert of the target
RanOutOfGas(call) ==
    /\ call.outcome.status = "raised"
    /\ ~Reverted(call)
    /\ Contains(<<"o", "u", "t", " ", "o", "f", " ", "g", "a", "s">>,
                lower(call.outcome.message))

\* C23: on an entry point the target has, the gas probe calls with the
\* iteration counts 100, 500, 1000, 5000 in that order; a call that
\* completes logs one GAS_LIMIT finding of severity MEDIUM if its gas used
\* is above 8,000,000 and nothing otherwise; a call that fails logs one
\* GAS_LIMIT_DOS finding of severity HIGH if it ran out of gas and nothing
\* for any other failure.
C23_GasProbe ==
    [][ProbeStepOn("gas_limit")
         => /\ Len(trace') \in 1..4
            /\ \A i \in DOMAIN trace' :
                 /\ trace'[i].function = Funcs("gas_limit")[fi]
                 /\ trace'[i].input = [base |-> "zero", offset |-> <<100, 500, 1000, 5000>>[i]]
                 /\ IF Completed(trace'[i])
                    THEN IF trace'[i].outcome.gas_used > 8000000
                         THEN /\ Len(trace'[i].logged) = 1
                              /\ trace'[i].logged[1].type = "GAS_LIMIT"
                              /\ trace'[i].logged[1].severity = "MEDIUM"
                         ELSE trace'[i].logged = <<>>
                    ELSE IF RanOutOfGas(trace'[i])
                         THEN /\ Len(trace'[i].logged) = 1
                              /\ trace'[i].logged[1].type = "GAS_LIMIT_DOS"
                              /\ trace'[i].logged[1].severity = "HIGH"
                         ELSE trace'[i].logged = <<>>
            /\ testers'["gas_limit"] = testers["gas_limit"] \o LoggedBy(trace')]_vars

\* C24: on an entry point the target has, the slippage probe and the
\* flash-loan probe make exactly one call, with the amount 1,000,000 *
\* 10^18; the call logs exactly one finding if it completes (SLIPPAGE of
\* severity MEDIUM, FLASH_LOAN of severity HIGH) and nothing if it raises.
C24_OversizedAmountProbes ==
    [][\A c \in {"slippage", "flash_loan"} :
         ProbeStepOn(c)
           => /\ Len(trace') = 1
              /\ trace'[1].function = Funcs(c)[fi]
              /\ trace'[1].input = [units_of_10_18 |-> 1000000]
              /\ IF Completed(trace'[1])
                 THEN /\ Len(trace'[1].logged) = 1
                      /\ trace'[1].logged[1].type
                           = IF c = "slippage" THEN "SLIPPAGE" ELSE "FLASH_LOAN"
                      /\ trace'[1].logged[1].severity
                           = IF c = "slippage" THEN "MEDIUM" ELSE "HIGH"
                 ELSE trace'[1].logged = <<>>
              /\ testers'[c] = testers[c] \o trace'[1].logged]_vars

\* the one call of the slippage probe on a fresh tester completed: the
\* tester's list holds one SLIPPAGE finding
C24_Witness ==
    /\ AtCategory /\ Registry[idx] = "slippage"
    /\ Len(trace) = 1
    /\ trace[1].input = large_amount
    /\ Completed(trace[1])
    /\ Len(testers["slippage"]) = 1
    /\ testers["slippage"][1].type = "SLIPPAGE"

\* ========================================================================
\* Properties of one run and of a sequence of runs
\* ========================================================================
RegistryOrder ==
    <<"reentrancy", "overflow", "access_control", "gas_limit",
      "front_running", "oracle", "slippage", "flash_loan">>

\* the entry points the configuration of the run lists for category c
ConfiguredFor(c) ==
    IF ConfigDeclares(c) /\ "list" \in DOMAIN test_config[ConfigKey[c]]
    THEN {test_config[ConfigKey[c]].list[k] : k \in DOMAIN test_config[ConfigKey[c]].list}
    ELSE {}

EightReports(map) ==
    /\ DOMAIN map = {"reentrancy", "overflow", "access_control", "gas_limit",
                     "front_running", "oracle", "slippage", "flash_loan"}
    /\ \A c \in DOMAIN map :
         \/ DOMAIN map[c] = {"error"}
         \/ DOMAIN map[c] = {"total_vulnerabilities", "vulnerabilities", "severity_counts"}

\* C26: a run_all_tests call never ends with an exception, whatever the
\* target and the configuration are: a step it takes at a category either
\* stays at the category with one more probe call made, or ends the
\* category with a normal report or an error report in the map and goes to
\* the next one; where no probe call is left it can take the report step;
\* when it is through the registry it can return, and does so with the
\* map; and after every call the caller holds a map with exactly the eight
\* registry categories, each with a normal report or an error report.
C26_AlwaysReturnsEightReports ==
    [][ /\ idx \in DOMAIN RegistryOrder =>
              \/ /\ idx' = idx /\ fi' = fi + 1 /\ results' = results
              \/ /\ idx' = idx + 1
                 /\ DOMAIN results' = DOMAIN results \cup {RegistryOrder[idx]}
                 /\ \A c \in DOMAIN results : results'[c] = results[c]
        /\ (idx \in DOMAIN RegistryOrder
              /\ (test_config = NoConfig \/ fi > NumCalls(RegistryOrder[idx])))
             => ENABLED category_report
        /\ idx = Len(RegistryOrder) + 1 =>
              /\ ENABLED run_all_tests_return
              /\ EightReports(results)
              /\ idx' = 0 /\ returned' = results
        /\ (idx' = 0 /\ runs' > 0) => EightReports(returned')
      ]_vars

\* a call with the target None and the configuration None has returned:
\* the map has an error report for each category that has a branch
C26_Witness ==
    /\ idx = 0 /\ runs > 0
    /\ EightReports(returned)
    /\ \A c \in DOMAIN ConfigKey : DOMAIN returned[c] = {"error"}
    /\ DOMAIN returned["front_running"] # {"error"}

IsPrefix(s, t) == Len(s) <= Len(t) /\ SubSeq(t, 1, Len(s)) = s

\* C27: no step takes a finding from a tester's list or changes one, and
\* a normal report shows the whole list of its tester; so the report a
\* category gets in a run has the findings of the category's report of
\* the run before as a prefix of its findings and a total that is not
\* lower, whatever the target and the configuration of the later run.
C27_FindingsAccumulate ==
    [][/\ \A c \in Categories : IsPrefix(testers[c], testers'[c])
       /\ \A c \in Categories :
            (/\ ReportStep(c)
             /\ ~IsErrorReport(results'[c])
             /\ c \in DOMAIN previous
             /\ ~IsErrorReport(previous[c]))
              => /\ IsPrefix(previous[c].findings, testers'[results'[c].vulnerabilities])
                 /\ previous[c].total_vulnerabilities
                      <= results'[c].total_vulnerabilities]_vars

\* the second run, with a configuration that omits a category in which
\* the first run found something, is complete: the report of the category
\* has the finding of the first run
C27_Witness ==
    /\ runs = 2 /\ RunComplete
    /\ \E c \in Categories :
         /\ ~ConfigDeclares(c)
         /\ c \in DOMAIN previous /\ ~IsErrorReport(previous[c])
         /\ previous[c].total_vulnerabilities >= 1
         /\ ~IsErrorReport(results[c])
         /\ results[c].total_vulnerabilities = previous[c].total_vulnerabilities
         /\ Findings(results[c]) = previous[c].findings

\* the step is the client's call of the front-running probe
FrontRunningStep == idx = 0 /\ idx' = 0

\* the step of run_all_tests at the front_running category
FrontRunningCategoryStep ==
    AtCategory /\ Registry[idx] = "front_running" /\ idx' # idx

NoFindingsReport(rep) ==
    /\ "error" \notin DOMAIN rep
    /\ rep.total_vulnerabilities = 0
    /\ Findings(rep) = <<>>
    /\ rep.severity_counts = [HIGH |-> 0, MEDIUM |-> 0, LOW |-> 0]

\* C28: run_all_tests makes no call of the front-running probe at the
\* front_running category, whatever the configuration holds: the step there
\* is the report step, which makes no call on the target and leaves every
\* list alone.  A call of the probe itself makes at most its two calls and
\* logs nothing whatever they answer.  So the front_running entry of a map
\* the suite returns is a report with no finding and every count zero.
C28_FrontRunningNeverLogs ==
    [][ /\ FrontRunningCategoryStep =>
              /\ trace' = NoTrace
              /\ testers' = testers
              /\ idx' = idx + 1
              /\ NoFindingsReport(results'["front_running"])
        /\ FrontRunningStep =>
              /\ testers' = testers
              /\ Len(trace') <= 2
              /\ \A i \in DOMAIN trace' : trace'[i].logged = <<>>
        /\ testers'["front_running"] = <<>>
        /\ "front_running" \in DOMAIN returned' =>
              NoFindingsReport(returned'["front_running"])
      ]_vars

\* the suite returned a map, and then both calls of a direct call of the
\* probe went through: still nothing on the list
C28_Witness ==
    /\ idx = 0
    /\ "front_running" \in DOMAIN returned
    /\ NoFindingsReport(returned["front_running"])
    /\ Len(trace) = 2
    /\ trace[1].input = VictimArgs /\ trace[2].input = AttackerArgs
    /\ Completed(trace[1]) /\ Completed(trace[2])
    /\ testers["front_running"] = <<>>

IsHigh(f) == f.severity = "HIGH"
LogsHigh(call) == \E n \in DOMAIN call.logged : IsHigh(call.logged[n])

\* C29: one call of the gas probe on an entry point stops at the first call
\* on the target that raises, whatever the error: every call but the last
\* one completed.  So the probe call logs at most one finding of severity
\* HIGH, logs nothing after a HIGH finding, and logs at most four findings.
C29_GasProbeStopsAtFirstFailure ==
    [][ProbeStepOn("gas_limit")
         => /\ \A i \in 1..(Len(trace') - 1) : Completed(trace'[i])
            /\ \A i \in DOMAIN trace' :
                 ~Completed(trace'[i]) => i = Len(trace')
            /\ Len(SelectSeq(LoggedBy(trace'), IsHigh)) <= 1
            /\ \A i, j \in DOMAIN trace' :
                 (i < j /\ LogsHigh(trace'[i])) => trace'[j].logged = <<>>
            /\ \A n, m \in DOMAIN LoggedBy(trace') :
                 n < m => ~IsHigh(LoggedBy(trace')[n])
            /\ Len(LoggedBy(trace')) <= 4]_vars

\* the second call of the gas probe ran out of gas after the first one had
\* completed above the gas mark: two findings, the HIGH one last, and no
\* third call
C29_Witness ==
    /\ AtCategory /\ Registry[idx] = "gas_limit"
    /\ Len(trace) = 2
    /\ Completed(trace[1]) /\ Len(trace[1].logged) = 1
    /\ RanOutOfGas(trace[2]) /\ LogsHigh(trace[2])
    /\ Len(testers["gas_limit"]) = 2

\* ========================================================================
\* What the aggregation sees of the probes
\* ========================================================================
ProbeResultPaths == {report_path[test_files[k]] : k \in DOMAIN test_files}

NoProbeResults == \A p \in ProbeResultPaths : reports_dir[p] = Absent

\* C30: no step of main() writes reports/test_security_comprehensive_report.json
\* or reports/test_reentrancy_specific_report.json, the only two files the
\* aggregation reads probe results from.  So in a run on a reports directory
\* without the two files, the unified report has no test results and every
\* finding it lists comes from slither.
C30_ProbeResultsNeverReachReport ==
    [][ /\ \A p \in ProbeResultPaths : reports_dir'[p] = reports_dir[p]
        /\ NoProbeResults' =>
              /\ DOMAIN report'.test_results = {}
              /\ \A i \in DOMAIN report'.vulnerabilities :
                    report'.vulnerabilities[i].test_file = "slither"
      ]_vars

\* a finished aggregation on a directory without the two files whose
\* unified report lists a finding of the external tool and nothing else
C30_Witness ==
    /\ Done
    /\ NoProbeResults
    /\ DOMAIN report.test_results = {}
    /\ Len(report.vulnerabilities) >= 1
    /\ Len(FromSlither) = Len(report.vulnerabilities)

====
